---------------------------- MODULE Spec2Model ----------------------------
(***************************************************************************)
(* A model of src/src/main.rs: the schema-driven flattening of a JSON      *)
(* document into records (Schema::extract) and the cross product that      *)
(* combines sibling groups of records (merge, merge_two).                  *)
(*                                                                         *)
(* Both are pure functions.  They are modelled as operators that compute   *)
(* what the code computes, and two specifications apply them to inputs     *)
(* drawn from bounded sets:                                                *)
(*   Spec       schema.extract(&doc)     (action Extract, ExtractPanic)    *)
(*   MergeSpec  merge(sets)              (action Merge)                    *)
(***************************************************************************)
EXTENDS Integers, Sequences, FiniteSets, TLC

VARIABLES pc, schema, doc, results, sets, merged

vars == <<pc, schema, doc, results, sets, merged>>

(***************************************************************************)
(* Bounds of the model.                                                    *)
(***************************************************************************)
MaxGroups == 3      \* merge: number of groups handed to merge
MaxRows == 2        \* merge: number of records of a group
MaxChildren == 3    \* extract: number of children of the root Sub
MaxArr == 2         \* extract: length of an array of the document

(***************************************************************************)
(* serde_json::Value and Option<Value>.  Every value is a record of one    *)
(* shape; t is the variant.  "none" is Option::None, every other t is      *)
(* Some(value).  A number keeps serde_json's distinction between an        *)
(* integer (f = FALSE) and a float (f = TRUE): Number(1) # Number(1.0).    *)
(* An object is its entries [k, v] in key order, keys unique (Map).        *)
(***************************************************************************)
None == [t |-> "none", n |-> 0, f |-> FALSE, s |-> "", items |-> <<>>]
Null == [t |-> "null", n |-> 0, f |-> FALSE, s |-> "", items |-> <<>>]
Int_(n) == [t |-> "number", n |-> n, f |-> FALSE, s |-> "", items |-> <<>>]
Float_(n) == [t |-> "number", n |-> n, f |-> TRUE, s |-> "", items |-> <<>>]
String_(s) == [t |-> "string", n |-> 0, f |-> FALSE, s |-> s, items |-> <<>>]
Array_(a) == [t |-> "array", n |-> 0, f |-> FALSE, s |-> "", items |-> a]
Object_(m) == [t |-> "object", n |-> 0, f |-> FALSE, s |-> "", items |-> m]
Entry(k, v) == [k |-> k, v |-> v]

\* Map::get: Some(value) of the entry with that key, None when there is none.
Get(m, key) ==
    IF \E i \in DOMAIN m.items : m.items[i].k = key
    THEN m.items[CHOOSE i \in DOMAIN m.items : m.items[i].k = key].v
    ELSE None

(***************************************************************************)
(* type Pair = (Name, Option<Value>).  src is an auxiliary field that no   *)
(* operation reads: the position in the schema (child indices from the     *)
(* root) of the Key node that emitted the pair, <<>> for a pair that was   *)
(* not emitted by a Key node.  type Record = Vec<Pair>.                    *)
(***************************************************************************)
Pair(name, value, src) == [name |-> name, value |-> value, src |-> src]

(***************************************************************************)
(* enum Schema.  name is Option<&str>: <<>> is None, <<s>> is Some(s).     *)
(* transform is Option<Transform>: "" is None, "inc" is Some(inc).         *)
(***************************************************************************)
Sub(key, children) ==
    [kind |-> "Sub", key |-> key, name |-> <<>>, transform |-> "",
     children |-> children]
Key(key, name, transform) ==
    [kind |-> "Key", key |-> key, name |-> name, transform |-> transform,
     children |-> <<>>]

\* inc without the + 1.0.
inc_no_add(val) == IF val.t = "number" THEN Float_(val.n) ELSE val

\* fn inc: a number becomes the float n + 1.0, anything else passes through.
inc(val) == IF val.t = "number" THEN Float_(val.n + 1) ELSE val

\* if let Some(func) = transform { func(value) } else { value }
apply(transform, value) == IF transform = "inc" THEN inc(value) ELSE value

\* prefix without the test for an empty prefix.
prefix_always_joined(pre, name) == pre \o "_" \o name

\* fn Schema::prefix
prefix(pre, name) == IF pre = "" THEN name ELSE pre \o "_" \o name

\* merge_two with x.append(y) for y.append(x): left-side fields first.
merge_two_left_first(left, right) ==
    LET inner(x) == [j \in 1..Len(right) |-> x \o right[j]]
        RECURSIVE outer(_)
        outer(i) == IF i > Len(left) THEN <<>>
                    ELSE inner(left[i]) \o outer(i + 1)
    IN  outer(1)

\* merge_two with the two loops exchanged: right outside, left inside.
merge_two_right_outer(left, right) ==
    LET inner(y) == [i \in 1..Len(left) |-> y \o left[i]]
        RECURSIVE outer(_)
        outer(j) == IF j > Len(right) THEN <<>>
                    ELSE inner(right[j]) \o outer(j + 1)
    IN  outer(1)

(***************************************************************************)
(* fn merge_two: for every x of left, for every y of right, y ++ x.        *)
(***************************************************************************)
merge_two(left, right) ==
    LET inner(x) == [j \in 1..Len(right) |-> right[j] \o x]
        RECURSIVE outer(_)
        outer(i) == IF i > Len(left) THEN <<>>
                    ELSE inner(left[i]) \o outer(i + 1)
    IN  outer(1)

\* fold with the closure's arguments exchanged: merge_two(next, acc).
RECURSIVE fold_swapped(_, _)
fold_swapped(acc, rest) ==
    IF rest = <<>> THEN acc
    ELSE fold_swapped(merge_two(Head(rest), acc), Tail(rest))

\* Iterator::fold(init, f) with f = merge_two
RECURSIVE fold(_, _)
fold(acc, rest) ==
    IF rest = <<>> THEN acc
    ELSE fold(merge_two(acc, Head(rest)), Tail(rest))

\* merge without the arm for one group: fewer than two groups give no rows.
merge_one_as_none(groups) ==
    CASE Len(groups) <= 1 -> <<>>
      [] Len(groups) = 2 -> merge_two(groups[1], groups[2])
      [] OTHER -> fold(groups[Len(groups)], SubSeq(groups, 1, Len(groups) - 1))

\* merge taking the first group, not the last, as the initial accumulator.
merge_head_first(groups) ==
    CASE Len(groups) = 0 -> <<>>
      [] Len(groups) = 1 -> groups[1]
      [] Len(groups) = 2 -> merge_two(groups[1], groups[2])
      [] OTHER -> fold(Head(groups), Tail(groups))

\* fn merge
merge(groups) ==
    CASE Len(groups) = 0 -> <<>>
      [] Len(groups) = 1 -> groups[1]
      [] Len(groups) = 2 -> merge_two(groups[1], groups[2])
      [] OTHER -> LET head == groups[Len(groups)]
                      rest == SubSeq(groups, 1, Len(groups) - 1)
                  IN  fold(head, rest)

(***************************************************************************)
(* fn Schema::_extract_key.  at is the position of self in the schema; it  *)
(* only fills the auxiliary src of the pair.                               *)
(***************************************************************************)
_extract_key(self, record, pre, at) ==
    LET k == IF self.name # <<>> THEN self.name[1] ELSE prefix(pre, self.key)
        value == IF record.t = "object" THEN Get(record, self.key) ELSE None
    IN  Pair(k, apply(self.transform, value), at)

RECURSIVE _extract_sub(_, _, _, _)
RECURSIVE flat_map_elements(_, _, _, _)

\* The array arm with arr.first() for arr.iter(): only the first element.
flat_map_first(k, arr, pre, at) ==
    IF arr = <<>> THEN <<>> ELSE _extract_sub(k, Head(arr), pre, at)

\* arr.iter().flat_map(|v| k._extract_sub(Some(v), &prefix)).collect()
flat_map_elements(k, arr, pre, at) ==
    IF arr = <<>> THEN <<>>
    ELSE _extract_sub(k, Head(arr), pre, at)
             \o flat_map_elements(k, Tail(arr), pre, at)

(***************************************************************************)
(* fn Schema::_extract_sub on a Sub node (on a Key node it panics, see     *)
(* ExtractPanic).  record is Option<&Value>; scan is the loop over the     *)
(* children, which runs only for Some(record).                             *)
(***************************************************************************)
_extract_sub(self, record, pre, at) ==
    LET pfx == prefix(pre, self.key)
        RECURSIVE scan(_, _, _)
        scan(i, fields, subdocs) ==
            IF i > Len(self.children) THEN <<fields, subdocs>>
            ELSE LET item == self.children[i]
                     here == Append(at, i)
                 IN  IF item.kind = "Sub"
                     THEN IF record.t = "object"
                          THEN LET o == Get(record, item.key)
                               IN  IF o.t = "object"
                                   THEN scan(i + 1, fields,
                                             Append(subdocs, _extract_sub(item, o, pfx, here)))
                                   ELSE IF o.t = "array"
                                   THEN scan(i + 1, fields,
                                             Append(subdocs, flat_map_elements(item, o.items, pfx, here)))
                                   ELSE scan(i + 1, fields, subdocs)
                          ELSE scan(i + 1, fields,
                                    Append(subdocs, _extract_sub(item, None, pfx, here)))
                     ELSE scan(i + 1, Append(fields, _extract_key(item, record, pfx, here)),
                               subdocs)
        collected == IF record # None THEN scan(1, <<>>, <<>>) ELSE <<<<>>, <<>>>>
        fields == collected[1]
        subdocs == IF Len(fields) > 0 THEN Append(collected[2], <<fields>>)
                   ELSE collected[2]
    IN  merge(subdocs)

\* fn Schema::extract
extract(self, record) == _extract_sub(self, record, "", <<>>)

(***************************************************************************)
(* Inputs of merge: the records of the tests, ("test1", None) and so on.   *)
(***************************************************************************)
T(name) == Pair(name, None, <<>>)
Records == {<<T("test1")>>, <<T("test2"), T("test3")>>}

RECURSIVE SeqsUpTo(_, _)
SeqsUpTo(S, n) ==
    IF n = 0 THEN {<<>>}
    ELSE LET shorter == SeqsUpTo(S, n - 1)
         IN  shorter \cup {Append(q, e) : q \in {r \in shorter : Len(r) = n - 1}, e \in S}

Groups == SeqsUpTo(Records, MaxRows)
GroupLists == SeqsUpTo(Groups, MaxGroups)

NoSchema == Sub("", <<>>)

InitMerge ==
    /\ pc = "init"
    /\ sets \in GroupLists
    /\ merged = <<>>
    /\ schema = NoSchema
    /\ doc = Null
    /\ results = <<>>

Merge ==
    /\ pc = "init"
    /\ merged' = merge(sets)
    /\ pc' = "done"
    /\ UNCHANGED <<schema, doc, results, sets>>

NextMerge == Merge

MergeSpec == InitMerge /\ [][NextMerge]_vars

(***************************************************************************)
(* Inputs of extract.  The macros key!, sub! and doc! build the schema.    *)
(***************************************************************************)
key1(id) == Key(id, <<>>, "")
key2(id, name) == Key(id, <<name>>, "")
key3(id, name, func) == Key(id, <<name>>, func)
sub(id, children) == Sub(id, children)
docm(children) == Sub("", children)

\* The schema and the document of fn main.
SampleSchema ==
    docm(<<key3("id", "human_id", "inc"),
           key1("name"),
           sub("phone", <<key1("type"), key1("number")>>),
           sub("family", <<key2("relation", "relationship"),
                           key2("name", "full_name")>>)>>)

SampleDoc ==
    Object_(<<Entry("family",
                    Array_(<<Object_(<<Entry("name", String_("Mother Superior")),
                                       Entry("relation", String_("mom"))>>),
                             Object_(<<Entry("name", String_("Father Dearest")),
                                       Entry("relation", String_("dad"))>>)>>)),
              Entry("id", Int_(1)),
              Entry("name", String_("Felix Alonso")),
              Entry("phone",
                    Object_(<<Entry("number", String_("661 867 5309")),
                              Entry("type", String_("cell"))>>))>>)

\* The nodes the children of a root are drawn from.
Nodes ==
    { key1("x"),
      sub("a", <<key1("x"), key3("y", "m", "inc")>>),
      sub("b", <<key1("x")>>),
      sub("a", <<key1("y"), sub("b", <<key1("x")>>)>>) }

\* Roots built by doc!, roots with a sourceKey of their own, the schema of
\* main, and a Key node where a root Sub is required.
Schemas ==
    {docm(c) : c \in SeqsUpTo(Nodes, MaxChildren) \ {<<>>}}
        \cup {Sub("r", <<n>>) : n \in Nodes}
        \cup {SampleSchema, key1("x")}

\* The values of the document under the key "a" (None: no entry).
Obj1 == Object_(<<Entry("x", Int_(1))>>)
Obj3 == Object_(<<Entry("x", Null)>>)
Obj2 == Object_(<<Entry("b", Array_(<<Obj1, Obj3>>)),
                  Entry("x", Int_(2)),
                  Entry("y", Int_(5))>>)
Elements == {Obj1, Obj2}
SubValues ==
    {None, Null, Int_(7), Array_(<<Int_(7)>>)} \cup Elements
        \cup {Array_(q) : q \in SeqsUpTo(Elements, MaxArr)}

\* The values under the key "b": the arrays are Obj1, Obj3, Obj1, ... of
\* every length up to MaxArr.
Alternating(n) == [i \in 1..n |-> IF i % 2 = 1 THEN Obj1 ELSE Obj3]
BValues ==
    {None, Int_(7), Obj1} \cup {Array_(Alternating(n)) : n \in 0..MaxArr}

Present(entries) == SelectSeq(entries, LAMBDA e : e.v # None)

Docs ==
    {Object_(Present(<<Entry("a", va), Entry("b", vb), Entry("x", vx)>>)) :
         va \in SubValues, vb \in BValues, vx \in {Int_(1)}}
        \cup {SampleDoc, Int_(7), Array_(<<Obj1>>)}

Init ==
    /\ pc = "init"
    /\ schema \in Schemas
    /\ doc \in Docs
    /\ results = <<>>
    /\ sets = <<>>
    /\ merged = <<>>

\* schema.extract(&doc) on a schema rooted at a Sub node.
Extract ==
    /\ pc = "init"
    /\ schema.kind = "Sub"
    /\ results' = extract(schema, doc)
    /\ pc' = "done"
    /\ UNCHANGED <<schema, doc, sets, merged>>

\* schema.extract(&doc) on a Key node: panic!("Cannot call _extract_sub on Key!").
ExtractPanic ==
    /\ pc = "init"
    /\ schema.kind = "Key"
    /\ pc' = "panic"
    /\ UNCHANGED <<schema, doc, results, sets, merged>>

Next == Extract \/ ExtractPanic

Spec == Init /\ [][Next]_vars

(***************************************************************************)
(* Properties of extract, checked under Spec.                              *)
(***************************************************************************)
\* The node of the schema at a position.
RECURSIVE NodeAt(_, _)
NodeAt(node, path) ==
    IF path = <<>> THEN node ELSE NodeAt(node.children[Head(path)], Tail(path))

\* The positions of the Key nodes of the subtree of node, which is at `at`.
RECURSIVE KeyPaths(_, _)
KeyPaths(node, at) ==
    IF node.kind = "Key" THEN {at}
    ELSE UNION {KeyPaths(node.children[i], Append(at, i)) : i \in DOMAIN node.children}

\* What a record carries: for each pair, the Key that emitted it and the value.
Carried(rec) == {[src |-> rec[f].src, value |-> rec[f].value] : f \in DOMAIN rec}

\* The Key children of node (at `at`), evaluated on the value ctx.
KeyFields(node, at, ctx) ==
    {[src |-> Append(at, c),
      value |-> apply(node.children[c].transform,
                      IF ctx.t = "object" THEN Get(ctx, node.children[c].key) ELSE None)] :
         c \in {d \in DOMAIN node.children : node.children[d].kind = "Key"}}

SubChildren(node) == {i \in DOMAIN node.children : node.children[i].kind = "Sub"}
OnlyKeys(node) == node.children # <<>> /\ SubChildren(node) = {}
ArrayOfObjects(v) ==
    v.t = "array" /\ \A e \in DOMAIN v.items : v.items[e].t = "object"

\* The case of C1: the root has exactly two Sub children, each with Key
\* children only and each matching an array of objects of the document.
TwoArrays ==
    /\ schema.kind = "Sub"
    /\ doc.t = "object"
    /\ Cardinality(SubChildren(schema)) = 2
    /\ \A i \in SubChildren(schema) :
           /\ OnlyKeys(schema.children[i])
           /\ ArrayOfObjects(Get(doc, schema.children[i].key))

\* C1: two sibling Sub children matching arrays of M and N objects give
\* M * N records, one for every pair of elements, each carrying the Key
\* fields of its two elements and the root's Key fields.
C1_ProductOfArrays ==
    (pc = "done" /\ TwoArrays) =>
        LET p == CHOOSE i \in SubChildren(schema) : \A j \in SubChildren(schema) : i <= j
            q == CHOOSE i \in SubChildren(schema) : i # p
            A == Get(doc, schema.children[p].key).items
            B == Get(doc, schema.children[q].key).items
            expected(i, j) ==
                KeyFields(schema.children[p], <<p>>, A[i])
                    \cup KeyFields(schema.children[q], <<q>>, B[j])
                    \cup KeyFields(schema, <<>>, doc)
            pairs == (DOMAIN A) \X (DOMAIN B)
            rowsOf(e) == {k \in DOMAIN results :
                              /\ Carried(results[k]) = e
                              /\ Len(results[k]) = Cardinality(e)}
        IN  /\ Len(results) = Len(A) * Len(B)
            /\ \A x \in pairs :
                   Cardinality(rowsOf(expected(x[1], x[2]))) =
                   Cardinality({y \in pairs :
                                    expected(y[1], y[2]) = expected(x[1], x[2])})

C1_Witness ==
    /\ pc = "done"
    /\ TwoArrays
    /\ Len(schema.children) = 3
    /\ \E i, j \in SubChildren(schema) :
           /\ schema.children[i].key = "a"
           /\ schema.children[j].key = "b"
    /\ Len(Get(doc, "a").items) = 2
    /\ Len(Get(doc, "b").items) = 2
    /\ Get(doc, "a").items[1] # Get(doc, "a").items[2]
    /\ Len(results) = 4

\* C2 as stated: a Sub child whose sourceKey is missing from the context
\* object, or is there a scalar or null, still gives every record one pair
\* with value null for every Key of its subtree.
C2_MissingSubKeepsShape ==
    (pc = "done" /\ schema.kind = "Sub" /\ doc.t = "object") =>
        \A i \in SubChildren(schema) :
            Get(doc, schema.children[i].key).t \notin {"object", "array"} =>
                \A r \in DOMAIN results :
                    \A path \in KeyPaths(schema.children[i], <<i>>) :
                        \E f \in DOMAIN results[r] :
                            /\ results[r][f].src = path
                            /\ results[r][f].value = None

\* C5 as stated: a schema rooted at a Sub node that declares a Key node gives,
\* for every document, one or more records, each with all declared fields.
C5_NeverEmpty ==
    (pc = "done" /\ schema.kind = "Sub" /\ KeyPaths(schema, <<>>) # {}) =>
        /\ Len(results) >= 1
        /\ \A r \in DOMAIN results :
               \A path \in KeyPaths(schema, <<>>) :
                   \E f \in DOMAIN results[r] : results[r][f].src = path

\* The sourceKeys from node down to the node at path.
RECURSIVE KeysAlong(_, _)
KeysAlong(node, path) ==
    <<node.key>> \o
        (IF path = <<>> THEN <<>>
         ELSE KeysAlong(node.children[Head(path)], Tail(path)))

RECURSIVE Joined(_)
Joined(segments) ==
    IF Len(segments) = 1 THEN segments[1]
    ELSE segments[1] \o "_" \o Joined(Tail(segments))

DeclaredName(path) ==
    LET k == NodeAt(schema, path)
        all == KeysAlong(schema, path)
        segments == IF all[1] = "" THEN Tail(all) ELSE all
    IN  IF k.name # <<>> THEN k.name[1] ELSE Joined(segments)

\* C6: a Key's pair is named by its explicit output name when it has one,
\* otherwise by the sourceKeys of its ancestors from the root down and its
\* own, joined by "_", a root "" contributing no segment.
C6_Names ==
    pc = "done" =>
        \A r \in DOMAIN results : \A f \in DOMAIN results[r] :
            results[r][f].name = DeclaredName(results[r][f].src)

C6_Witness ==
    /\ pc = "done"
    /\ schema.key = ""
    /\ \E r \in DOMAIN results :
           /\ \E f \in DOMAIN results[r] :
                  /\ Len(results[r][f].src) = 3
                  /\ results[r][f].name = "a_b_x"
           /\ \E f \in DOMAIN results[r] :
                  /\ Len(results[r][f].src) = 2
                  /\ results[r][f].name = "m"

\* C7: the sample schema on the sample document gives 2 records of 6 fields
\* (the transformed id, the name, 2 of phone, 2 of a family element), equal
\* in every field but the two of the family element.
C7_Sample ==
    (pc = "done" /\ schema = SampleSchema /\ doc = SampleDoc) =>
        /\ Len(results) = 2
        /\ \A r \in DOMAIN results :
               LET rec == results[r]
                   from(c) == {f \in DOMAIN rec : rec[f].src[1] = c}
               IN  /\ Len(rec) = 6
                   /\ Cardinality(from(1)) = 1
                   /\ \A f \in from(1) : rec[f].value = Float_(2)
                   /\ Cardinality(from(2)) = 1
                   /\ Cardinality(from(3)) = 2
                   /\ Cardinality(from(4)) = 2
        /\ \A f \in 1..6 :
               /\ results[1][f].src = results[2][f].src
               /\ results[1][f].name = results[2][f].name
               /\ (results[1][f].value = results[2][f].value)
                      <=> (results[1][f].src[1] # 4)

C7_Witness ==
    /\ pc = "done"
    /\ schema = SampleSchema
    /\ doc = SampleDoc
    /\ Len(results) = 2
    /\ \E f \in DOMAIN results[1] :
           results[1][f].name = "relationship" /\ results[1][f].value = String_("mom")
    /\ \E f \in DOMAIN results[2] :
           results[2][f].name = "relationship" /\ results[2][f].value = String_("dad")

(***************************************************************************)
(* Properties of merge, checked under MergeSpec.                           *)
(***************************************************************************)
Range(q) == {q[i] : i \in DOMAIN q}
Occurrences(q, e) == Cardinality({k \in DOMAIN q : q[k] = e})

\* C3: merge([left, right]) has |left| * |right| records, one for each pair
\* (l, r), and the record of a pair is r's fields followed by l's fields.
C3_CrossProduct ==
    (pc = "done" /\ Len(sets) = 2) =>
        LET left == sets[1]
            right == sets[2]
            row(i, j) == right[j] \o left[i]
            pairs == (DOMAIN left) \X (DOMAIN right)
        IN  /\ Len(merged) = Len(left) * Len(right)
            /\ \A p \in pairs :
                   Occurrences(merged, row(p[1], p[2])) =
                   Cardinality({q \in pairs : row(q[1], q[2]) = row(p[1], p[2])})

C3_Witness ==
    /\ pc = "done"
    /\ Len(sets) = 2
    /\ Len(sets[1]) = 2 /\ sets[1][1] # sets[1][2]
    /\ Len(sets[2]) = 2 /\ sets[2][1] # sets[2][2]
    /\ Len(merged) = 4

\* The accumulator after folding the first k groups into the last one.
RECURSIVE FoldedUpTo(_, _)
FoldedUpTo(G, k) ==
    IF k = 0 THEN G[Len(G)] ELSE merge_two(FoldedUpTo(G, k - 1), G[k])

\* C4: for more than two groups G1..Gn, merge is Gn folded with G1, G2, ...,
\* G(n-1) in that order, each step merge_two(accumulator, next group).
C4_FoldFromLast ==
    (pc = "done" /\ Len(sets) > 2) => merged = FoldedUpTo(sets, Len(sets) - 1)

C4_Witness ==
    /\ pc = "done"
    /\ Len(sets) = 3
    /\ \A g \in DOMAIN sets : Len(sets[g]) = 2
    /\ sets[1] # sets[2] /\ sets[2] # sets[3] /\ sets[1] # sets[3]
    /\ Len(merged) = 8

\* C8: merge of no group is the empty sequence and merge of one group G is
\* G itself, also for an empty G.
C8_FewerThanTwo ==
    (pc = "done" /\ Len(sets) < 2) =>
        merged = (IF Len(sets) = 0 THEN <<>> ELSE sets[1])

C8_Witness ==
    pc = "done" /\ Len(sets) = 1 /\ Len(sets[1]) = 2 /\ merged = sets[1]

\* C9 as stated: the rows of merge([left, right]) are emitted with right in
\* the outer loop and left in the inner loop.
C9_RightOuter ==
    (pc = "done" /\ Len(sets) = 2) =>
        LET left == sets[1]
            right == sets[2]
        IN  /\ Len(merged) = Len(left) * Len(right)
            /\ \A j \in DOMAIN right : \A i \in DOMAIN left :
                   merged[(j - 1) * Len(left) + i] = right[j] \o left[i]

\* C9 as amended: the rows of merge([left, right]) are emitted with left in
\* the outer loop and right in the inner loop: the row of (l, r) is r ++ l,
\* and all rows of left's first record precede all rows of its second.
C9_LeftOuter ==
    (pc = "done" /\ Len(sets) = 2) =>
        LET left == sets[1]
            right == sets[2]
        IN  /\ Len(merged) = Len(left) * Len(right)
            /\ \A i \in DOMAIN left : \A j \in DOMAIN right :
                   merged[(i - 1) * Len(right) + j] = right[j] \o left[i]

C9_Witness ==
    /\ pc = "done"
    /\ Len(sets) = 2
    /\ Len(sets[1]) = 2 /\ Len(sets[2]) = 2
    /\ sets[1][1] # sets[1][2] /\ sets[2][1] # sets[2][2]
    /\ merged[2] = sets[2][2] \o sets[1][1]
    /\ merged[2] # sets[2][1] \o sets[1][2]

AllNonEmpty(G) == \A g \in DOMAIN G : G[g] # <<>>

\* C10 as stated: in every record of merge([G1..Gn]), all groups non-empty,
\* n = 2 or n > 2, the fields of Gn come first.
C10_LastGroupFirst ==
    (pc = "done" /\ Len(sets) >= 2 /\ AllNonEmpty(sets)) =>
        \A k \in DOMAIN merged :
            \E r \in Range(sets[Len(sets)]) :
                /\ Len(merged[k]) >= Len(r)
                /\ SubSeq(merged[k], 1, Len(r)) = r

\* The records made of one record of each of G[k], G[k-1], ..., G[1], in
\* that order.
RECURSIVE Descending(_, _)
Descending(G, k) ==
    IF k = 0 THEN {<<>>}
    ELSE {r \o d : r \in Range(G[k]), d \in Descending(G, k - 1)}

\* C10 as amended: for n = 2 the fields of G2 come first, then those of G1;
\* for n > 2 the fields of Gn come last: every record is the fields of
\* G(n-1), then G(n-2), ..., then G1, then Gn.
C10_LastGroupLast ==
    (pc = "done" /\ Len(sets) >= 2 /\ AllNonEmpty(sets)) =>
        LET n == Len(sets)
        IN  \A k \in DOMAIN merged :
                IF n = 2
                THEN merged[k] \in Descending(sets, 2)
                ELSE merged[k] \in {d \o r : d \in Descending(sets, n - 1),
                                             r \in Range(sets[n])}

C10_Witness ==
    /\ pc = "done"
    /\ Len(sets) = 3
    /\ AllNonEmpty(sets)
    /\ sets[1][1] # sets[3][1]
    /\ sets[2][1] = sets[1][1]
    /\ merged[1] = sets[2][1] \o sets[1][1] \o sets[3][1]
=============================================================================
